---- MODULE Spec2Model ----
(***************************************************************************)
(* Model of supply_interruption_app.py: the water supply interruption      *)
(* calculator.  One click of "Run Analysis" or "Quick Table" runs the      *)
(* whole handler on the contents of the three text areas.                  *)
(*                                                                         *)
(* Time is counted in clock units, UnitsPerHour of them to the hour; a     *)
(* pandas Timestamp is the number of units since the first reading and a   *)
(* timedelta is a difference of two of them.  A formatted "HH:MM:SS"       *)
(* string is the sequence <<hours, minutes, seconds>>, the empty string    *)
(* is <<>>.                                                                *)
(***************************************************************************)
EXTENDS Integers, Sequences, FiniteSets, TLC

\* ---- bounds of the model ----
MaxReadings == 4
MaxHeights == 2
UnitsPerHour == 2
MaxRows == 3

SecondsPerUnit == 3600 \div UnitsPerHour

\* ---- program constants ----
MergeGapHours == 1
MinDurationHours == 3
ReferenceOffset == 3
LoggerHeight == 10
MergeGap == MergeGapHours * UnitsPerHour
MinDuration == MinDurationHours * UnitsPerHour

\* values that are not timestamps or timedeltas
InSupplyAllTimes == -1
Blank == -2
NoneValue == -3
Unbound == -4

\* ---- input domains ----
\* the spacings of consecutive readings
Deltas == {0, 1, MergeGap, MinDuration}
Pressures == {4, 8}
Heights == {10, 12}
Headlosses == {0, 4}

RECURSIVE SeqsUpTo(_, _)
SeqsUpTo(S, n) ==
    IF n = 0 THEN {<<>>}
    ELSE LET shorter == SeqsUpTo(S, n - 1)
         IN shorter \cup {Append(s, x) : s \in {t \in shorter : Len(t) = n - 1}, x \in S}

RECURSIVE Cumulate(_, _)
\* the timestamps whose consecutive differences are ds, the first being t0
Cumulate(t0, ds) ==
    IF ds = <<>> THEN <<t0>>
    ELSE <<t0>> \o Cumulate(t0 + Head(ds), Tail(ds))

TimestampLists ==
    {<<>>} \cup {Cumulate(0, ds) : ds \in SeqsUpTo(Deltas, MaxReadings - 1)}

\* ---- helper functions ----

\* ScanLoop with the guard "and not in_interrupt" dropped: every false reading
\* restarts the outage
RECURSIVE ScanLoop_RestartsOutage(_, _, _)
ScanLoop_RestartsOutage(time_series, status_series, i) ==
    IF i = 0
    THEN [interruptions |-> <<>>, in_interrupt |-> FALSE, start_time |-> NoneValue]
    ELSE LET st == ScanLoop_RestartsOutage(time_series, status_series, i - 1)
         IN IF ~status_series[i]
            THEN [interruptions |-> st.interruptions,
                  in_interrupt |-> TRUE,
                  start_time |-> time_series[i]]
            ELSE IF status_series[i] /\ st.in_interrupt
            THEN [interruptions |-> Append(st.interruptions,
                      [lost_time |-> st.start_time,
                       regained_time |-> time_series[i],
                       duration |-> time_series[i] - st.start_time]),
                  in_interrupt |-> FALSE,
                  start_time |-> st.start_time]
            ELSE st

\* state of the scan of get_supply_interruptions after the first i readings
RECURSIVE ScanLoop(_, _, _)
ScanLoop(time_series, status_series, i) ==
    IF i = 0
    THEN [interruptions |-> <<>>, in_interrupt |-> FALSE, start_time |-> NoneValue]
    ELSE LET st == ScanLoop(time_series, status_series, i - 1)
         IN IF ~status_series[i] /\ ~st.in_interrupt
            THEN [interruptions |-> st.interruptions,
                  in_interrupt |-> TRUE,
                  start_time |-> time_series[i]]
            ELSE IF status_series[i] /\ st.in_interrupt
            THEN [interruptions |-> Append(st.interruptions,
                      [lost_time |-> st.start_time,
                       regained_time |-> time_series[i],
                       duration |-> time_series[i] - st.start_time]),
                  in_interrupt |-> FALSE,
                  start_time |-> st.start_time]
            ELSE st

\* get_supply_interruptions without the closing "if in_interrupt:" block
get_supply_interruptions_NoTrailing(time_series, status_series) ==
    ScanLoop(time_series, status_series, Len(status_series)).interruptions

get_supply_interruptions(time_series, status_series) ==
    LET st == ScanLoop(time_series, status_series, Len(status_series))
    IN IF st.in_interrupt
       THEN Append(st.interruptions,
                [lost_time |-> st.start_time,
                 regained_time |-> time_series[Len(time_series)],
                 duration |-> time_series[Len(time_series)] - st.start_time])
       ELSE st.interruptions

\* td is a timedelta in clock units; the result is the HH:MM:SS string
format_timedelta(td) ==
    LET total_seconds == td * SecondsPerUnit
    IN <<total_seconds \div 3600, (total_seconds % 3600) \div 60, total_seconds % 60>>

\* Python's sorted(): a stable sort of s, ascending by keys[i], the key of s[i]
sorted(s, keys) ==
    LET rank(i) == 1 + Cardinality({j \in 1..Len(s) :
                        keys[j] < keys[i] \/ (keys[j] = keys[i] /\ j < i)})
    IN [r \in 1..Len(s) |-> s[CHOOSE i \in 1..Len(s) : rank(i) = r]]

\* the keys of the defaultdict groups, in insertion order
RECURSIVE GroupKeys(_)
GroupKeys(result_rows) ==
    IF result_rows = <<>> THEN <<>>
    ELSE LET keys == GroupKeys(SubSeq(result_rows, 1, Len(result_rows) - 1))
             row == result_rows[Len(result_rows)]
         IN IF row.Lost_Supply # InSupplyAllTimes
               /\ \A i \in 1..Len(keys) : keys[i] # row.Property_Height
            THEN Append(keys, row.Property_Height)
            ELSE keys

GroupEvents(result_rows, height) ==
    SelectSeq(result_rows,
              LAMBDA row : row.Lost_Supply # InSupplyAllTimes /\ row.Property_Height = height)

NewCurrentEvent(e) ==
    [Lost_Supply |-> e.Lost_Supply,
     Regained_Supply |-> e.Regained_Supply,
     Cumulative_Duration |-> e.Raw_Duration]

ProcessedRow(height, events, current_event) ==
    [Property_Height |-> height,
     Total_Properties |-> events[1].Total_Properties,
     Lost_Supply |-> current_event.Lost_Supply,
     Regained_Supply |-> current_event.Regained_Supply,
     Outage_Duration_raw |-> current_event.Cumulative_Duration]

\* MergeLoop that adds the event's duration but not the restoration gap
RECURSIVE MergeLoop_NoGap(_, _, _, _, _)
MergeLoop_NoGap(processed, height, events, events_sorted, k) ==
    IF k = 0 THEN [processed |-> processed, current_event |-> <<>>]
    ELSE LET st == MergeLoop_NoGap(processed, height, events, events_sorted, k - 1)
             e == events_sorted[k]
         IN IF st.current_event = <<>>
            THEN [processed |-> st.processed, current_event |-> <<NewCurrentEvent(e)>>]
            ELSE LET cur == st.current_event[1]
                     restoration_duration == e.Lost_Supply - cur.Regained_Supply
                 IN IF restoration_duration < MergeGap
                    THEN [processed |-> st.processed,
                          current_event |->
                              <<[Lost_Supply |-> cur.Lost_Supply,
                                 Regained_Supply |-> e.Regained_Supply,
                                 Cumulative_Duration |->
                                     cur.Cumulative_Duration + e.Raw_Duration]>>]
                    ELSE [processed |->
                              IF cur.Cumulative_Duration >= MinDuration
                              THEN Append(st.processed, ProcessedRow(height, events, cur))
                              ELSE st.processed,
                          current_event |-> <<NewCurrentEvent(e)>>]

\* MergeLoop that also folds an event exactly one hour after the running outage
RECURSIVE MergeLoop_GapInclusive(_, _, _, _, _)
MergeLoop_GapInclusive(processed, height, events, events_sorted, k) ==
    IF k = 0 THEN [processed |-> processed, current_event |-> <<>>]
    ELSE LET st == MergeLoop_GapInclusive(processed, height, events, events_sorted, k - 1)
             e == events_sorted[k]
         IN IF st.current_event = <<>>
            THEN [processed |-> st.processed, current_event |-> <<NewCurrentEvent(e)>>]
            ELSE LET cur == st.current_event[1]
                     restoration_duration == e.Lost_Supply - cur.Regained_Supply
                 IN IF restoration_duration <= MergeGap
                    THEN [processed |-> st.processed,
                          current_event |->
                              <<[Lost_Supply |-> cur.Lost_Supply,
                                 Regained_Supply |-> e.Regained_Supply,
                                 Cumulative_Duration |->
                                     cur.Cumulative_Duration
                                     + restoration_duration + e.Raw_Duration]>>]
                    ELSE [processed |->
                              IF cur.Cumulative_Duration >= MinDuration
                              THEN Append(st.processed, ProcessedRow(height, events, cur))
                              ELSE st.processed,
                          current_event |-> <<NewCurrentEvent(e)>>]

\* MergeLoop that folds an event without moving Regained Supply to its end
RECURSIVE MergeLoop_KeepsRegained(_, _, _, _, _)
MergeLoop_KeepsRegained(processed, height, events, events_sorted, k) ==
    IF k = 0 THEN [processed |-> processed, current_event |-> <<>>]
    ELSE LET st == MergeLoop_KeepsRegained(processed, height, events, events_sorted, k - 1)
             e == events_sorted[k]
         IN IF st.current_event = <<>>
            THEN [processed |-> st.processed, current_event |-> <<NewCurrentEvent(e)>>]
            ELSE LET cur == st.current_event[1]
                     restoration_duration == e.Lost_Supply - cur.Regained_Supply
                 IN IF restoration_duration < MergeGap
                    THEN [processed |-> st.processed,
                          current_event |->
                              <<[Lost_Supply |-> cur.Lost_Supply,
                                 Regained_Supply |-> cur.Regained_Supply,
                                 Cumulative_Duration |->
                                     cur.Cumulative_Duration
                                     + restoration_duration + e.Raw_Duration]>>]
                    ELSE [processed |->
                              IF cur.Cumulative_Duration >= MinDuration
                              THEN Append(st.processed, ProcessedRow(height, events, cur))
                              ELSE st.processed,
                          current_event |-> <<NewCurrentEvent(e)>>]

\* the inner loop of process_outages over events_sorted[1..k]; current_event is
\* <<>> for None and <<c>> for the running outage c
RECURSIVE MergeLoop(_, _, _, _, _)
MergeLoop(processed, height, events, events_sorted, k) ==
    IF k = 0 THEN [processed |-> processed, current_event |-> <<>>]
    ELSE LET st == MergeLoop(processed, height, events, events_sorted, k - 1)
             e == events_sorted[k]
         IN IF st.current_event = <<>>
            THEN [processed |-> st.processed, current_event |-> <<NewCurrentEvent(e)>>]
            ELSE LET cur == st.current_event[1]
                     restoration_duration == e.Lost_Supply - cur.Regained_Supply
                 IN IF restoration_duration < MergeGap
                    THEN [processed |-> st.processed,
                          current_event |->
                              <<[Lost_Supply |-> cur.Lost_Supply,
                                 Regained_Supply |-> e.Regained_Supply,
                                 Cumulative_Duration |->
                                     cur.Cumulative_Duration
                                     + restoration_duration + e.Raw_Duration]>>]
                    ELSE [processed |->
                              IF cur.Cumulative_Duration >= MinDuration
                              THEN Append(st.processed, ProcessedRow(height, events, cur))
                              ELSE st.processed,
                          current_event |-> <<NewCurrentEvent(e)>>]

\* ProcessGroup with ">" for ">=" in the test of the last running outage
ProcessGroup_StrictFinal(processed, height, events) ==
    LET events_sorted == sorted(events, [i \in 1..Len(events) |-> events[i].Lost_Supply])
        st == MergeLoop(processed, height, events, events_sorted, Len(events_sorted))
    IN IF st.current_event # <<>>
          /\ st.current_event[1].Cumulative_Duration > MinDuration
       THEN Append(st.processed, ProcessedRow(height, events, st.current_event[1]))
       ELSE st.processed

\* one iteration of "for height, events in groups.items()"
ProcessGroup(processed, height, events) ==
    LET events_sorted == sorted(events, [i \in 1..Len(events) |-> events[i].Lost_Supply])
        st == MergeLoop(processed, height, events, events_sorted, Len(events_sorted))
    IN IF st.current_event # <<>>
          /\ st.current_event[1].Cumulative_Duration >= MinDuration
       THEN Append(st.processed, ProcessedRow(height, events, st.current_event[1]))
       ELSE st.processed

RECURSIVE ProcessGroups(_, _, _)
ProcessGroups(result_rows, keys, k) ==
    IF k = 0 THEN <<>>
    ELSE ProcessGroup(ProcessGroups(result_rows, keys, k - 1),
                      keys[k], GroupEvents(result_rows, keys[k]))

\* process_outages that returns processed as the groups left it, without the
\* final sort by height
process_outages_Unsorted(result_rows) ==
    LET keys == GroupKeys(result_rows)
    IN ProcessGroups(result_rows, keys, Len(keys))

process_outages(result_rows) ==
    LET keys == GroupKeys(result_rows)
        processed == ProcessGroups(result_rows, keys, Len(keys))
    IN sorted(processed, [i \in 1..Len(processed) |-> 0 - processed[i].Property_Height])

\* ---- deriving the supply status of one property height ----

Modified_Pressure(pressure_list, additional_headloss) ==
    [i \in 1..Len(pressure_list) |-> pressure_list[i] - additional_headloss]

Effective_Supply_Head(pressure_list, additional_headloss) ==
    [i \in 1..Len(pressure_list) |->
        LoggerHeight + (Modified_Pressure(pressure_list, additional_headloss)[i]
                        - ReferenceOffset)]

supply_status(pressure_list, additional_headloss, property_height) ==
    [i \in 1..Len(pressure_list) |->
        IF property_height <= LoggerHeight
        THEN Modified_Pressure(pressure_list, additional_headloss)[i] > 0
        ELSE Effective_Supply_Head(pressure_list, additional_headloss)[i] > property_height]

\* heights_df.groupby('Property_Height').size(): the distinct heights, ascending
RECURSIVE SortedHeights(_)
SortedHeights(S) ==
    IF S = {} THEN <<>>
    ELSE LET m == CHOOSE x \in S : \A y \in S : x <= y
         IN <<m>> \o SortedHeights(S \ {m})

unique_heights(heights_list) ==
    SortedHeights({heights_list[i] : i \in 1..Len(heights_list)})

total_props(heights_list, h) ==
    Cardinality({i \in 1..Len(heights_list) : heights_list[i] = h})

\* ---- Run Analysis: the result rows of one property height ----

InSupplyRow(property_height, total_properties) ==
    [Property_Height |-> property_height,
     Total_Properties |-> total_properties,
     Lost_Supply |-> InSupplyAllTimes,
     Regained_Supply |-> Blank,
     Outage_Duration |-> Blank,
     Restoration_Duration |-> <<>>,
     Raw_Duration |-> NoneValue]

EventRow(property_height, total_properties, interruptions, i) ==
    [Property_Height |-> property_height,
     Total_Properties |-> total_properties,
     Lost_Supply |-> interruptions[i].lost_time,
     Regained_Supply |-> interruptions[i].regained_time,
     Outage_Duration |-> interruptions[i].duration,
     Restoration_Duration |->
        IF i > 1
        THEN format_timedelta(interruptions[i].lost_time
                              - interruptions[i - 1].regained_time)
        ELSE <<>>,
     Raw_Duration |-> interruptions[i].duration]

GroupRows(ts, ps, hl, hs, property_height) ==
    LET interruptions ==
            get_supply_interruptions(ts, supply_status(ps, hl, property_height))
        total_properties == total_props(hs, property_height)
    IN IF interruptions = <<>>
       THEN <<InSupplyRow(property_height, total_properties)>>
       ELSE [i \in 1..Len(interruptions) |->
                EventRow(property_height, total_properties, interruptions, i)]

RECURSIVE ResultRows(_, _, _, _, _)
\* result_rows after the first k groups of "for _, group_row in grouped.iterrows()"
ResultRows(ts, ps, hl, hs, k) ==
    IF k = 0 THEN <<>>
    ELSE ResultRows(ts, ps, hl, hs, k - 1)
         \o GroupRows(ts, ps, hl, hs, unique_heights(hs)[k])

\* ---- Quick Table ----

\* CML Impact = ((hours * total_prop) / 1473786) * 60, kept exact as the integer
\* td * total_prop: the impact multiplied by 1473786 * UnitsPerHour / 60
CmlImpact(td, total_prop) == td * total_prop

Indices(n) == [i \in 1..n |-> i]

\* the timestamps appended to lost_times by the scan "for idx, val in condition.items()"
lost_times(ts, condition) ==
    LET hit == SelectSeq(Indices(Len(condition)),
                         LAMBDA i : i > 1 /\ condition[i - 1] /\ ~condition[i])
    IN [k \in 1..Len(hit) |-> ts[hit[k]]]

restored_times(ts, condition) ==
    LET hit == SelectSeq(Indices(Len(condition)),
                         LAMBDA i : i > 1 /\ ~condition[i - 1] /\ condition[i])
    IN [k \in 1..Len(hit) |-> ts[hit[k]]]

\* last_cycle_lost and last_cycle_restored after the first k elements of lost_times
RECURSIVE LastCycle(_, _, _)
LastCycle(lost, restored, k) ==
    IF k = 0 THEN [last_cycle_lost |-> NoneValue, last_cycle_restored |-> NoneValue]
    ELSE LET prev == LastCycle(lost, restored, k - 1)
             poss == SelectSeq(restored, LAMBDA rt : rt > lost[k])
         IN IF poss # <<>>
            THEN [last_cycle_lost |-> lost[k], last_cycle_restored |-> poss[1]]
            ELSE prev

QuickInSupply(outage_start) ==
    [Status |-> "In Supply", outage_start |-> outage_start,
     Outage_Duration |-> <<>>, Restoration_Time |-> Blank,
     Restoration_Duration |-> <<>>, CML_Impact |-> 0]

\* the locals of one iteration of "for h in unique_heights"; outage_start is the
\* value the local variable holds on entry (Unbound before its first assignment)
QuickLocals(ts, condition, total_prop, outage_start) ==
    LET n == Len(condition)
        last_time == ts[Len(ts)]
        first_time == ts[1]
    IN IF \A i \in 1..n : condition[i]
       THEN QuickInSupply(Blank)
       ELSE IF ~condition[n]
       THEN LET true_indices == {i \in 1..n : condition[i]}
                start == IF true_indices # {}
                         THEN ts[CHOOSE i \in true_indices : \A j \in true_indices : j <= i]
                         ELSE first_time
            IN [Status |-> "Outage", outage_start |-> start,
                Outage_Duration |-> format_timedelta(last_time - start),
                Restoration_Time |-> Blank,
                Restoration_Duration |-> <<>>,
                CML_Impact |-> CmlImpact(last_time - start, total_prop)]
       ELSE LET lost == lost_times(ts, condition)
                restored == restored_times(ts, condition)
                cyc == LastCycle(lost, restored, Len(lost))
            IN IF lost # <<>> /\ restored # <<>>
               THEN IF cyc.last_cycle_lost # NoneValue /\ cyc.last_cycle_restored # NoneValue
                    THEN [Status |-> "Restored", outage_start |-> outage_start,
                          Outage_Duration |->
                              format_timedelta(cyc.last_cycle_restored - cyc.last_cycle_lost),
                          Restoration_Time |-> cyc.last_cycle_restored,
                          Restoration_Duration |->
                              format_timedelta(last_time - cyc.last_cycle_restored),
                          CML_Impact |->
                              CmlImpact(cyc.last_cycle_restored - cyc.last_cycle_lost,
                                        total_prop)]
                    ELSE QuickInSupply(Blank)
               ELSE QuickInSupply(Blank)

\* the rows and the local outage_start after the first k heights; crashed when
\* rows.append read outage_start before any assignment (UnboundLocalError)
RECURSIVE QuickLoop(_, _, _, _, _)
QuickLoop(ts, ps, hl, hs, k) ==
    IF k = 0 THEN [rows |-> <<>>, outage_start |-> Unbound, crashed |-> FALSE]
    ELSE LET st == QuickLoop(ts, ps, hl, hs, k - 1)
             h == unique_heights(hs)[k]
             total_prop == total_props(hs, h)
             loc == QuickLocals(ts, supply_status(ps, hl, h), total_prop, st.outage_start)
         IN IF st.crashed \/ loc.outage_start = Unbound
            THEN [rows |-> st.rows, outage_start |-> Unbound, crashed |-> TRUE]
            ELSE [rows |-> Append(st.rows,
                      [Property_Height |-> h,
                       Total_Properties |-> total_prop,
                       Status |-> loc.Status,
                       Outage_Start |-> loc.outage_start,
                       Outage_Duration |-> loc.Outage_Duration,
                       Restoration_Time |-> loc.Restoration_Time,
                       Restoration_Duration |-> loc.Restoration_Duration,
                       CML_Impact |-> loc.CML_Impact]),
                  outage_start |-> loc.outage_start,
                  crashed |-> FALSE]

\* CML/hr = CML Impact / total_duration_hours, as the pair <<numerator, denominator>>
CmlPerHour(cml_impact, total_duration) ==
    IF total_duration > 0 /\ cml_impact # 0 THEN <<cml_impact, total_duration>> ELSE <<0, 1>>

compute_quick_table(ts, ps, hl, hs) ==
    LET st == QuickLoop(ts, ps, hl, hs, Len(unique_heights(hs)))
    IN IF ts = <<>> THEN [error |-> "IndexError", rows |-> <<>>]
       ELSE IF st.crashed THEN [error |-> "UnboundLocalError", rows |-> <<>>]
       ELSE IF st.rows = <<>> THEN [error |-> "KeyError", rows |-> <<>>]
       ELSE [error |-> "",
             rows |-> [k \in 1..Len(st.rows) |->
                          [Property_Height |-> st.rows[k].Property_Height,
                           Total_Properties |-> st.rows[k].Total_Properties,
                           Status |-> st.rows[k].Status,
                           Outage_Start |-> st.rows[k].Outage_Start,
                           Outage_Duration |-> st.rows[k].Outage_Duration,
                           Restoration_Time |-> st.rows[k].Restoration_Time,
                           Restoration_Duration |-> st.rows[k].Restoration_Duration,
                           CML_Impact |-> st.rows[k].CML_Impact,
                           CML_hr |-> CmlPerHour(st.rows[k].CML_Impact,
                                                 ts[Len(ts)] - ts[1])]]]

\* ---- the application ----

VARIABLES
    view,                \* the run the page shows: "idle", "analysis" or "quick"
    boxes_filled,        \* that run found text in all three text areas
    timestamps_list,     \* its non-blank lines of the timestamps box
    pressure_list,       \* its non-blank lines of the readings box
    heights_list,        \* its non-blank lines of the heights box
    additional_headloss, \* its headloss number input
    error,               \* the error reported, "" when none
    result_rows,         \* Run Analysis: the raw result rows
    processed_events,    \* Run Analysis: the output of process_outages
    quick_rows           \* Quick Table: the rows of quick_df

vars == <<view, boxes_filled, timestamps_list, pressure_list, heights_list,
          additional_headloss, error, result_rows, processed_events, quick_rows>>

\* the contents the text areas and the number input can have at a click: the
\* timestamps non-decreasing, with a reading for each, or the readings box
\* left with blank lines only
AllPressureLists == SeqsUpTo(Pressures, MaxReadings)

PressureLists(n) == {<<>>} \cup {ps \in AllPressureLists : Len(ps) = n}

HeightLists == SeqsUpTo(Heights, MaxHeights)

Input(filled, ts, ps, hs, hl) ==
    [filled |-> filled, ts |-> ts, ps |-> ps, hs |-> hs, hl |-> hl]

\* a box that holds a parsed line holds some text; boxes that hold none may
\* be empty or hold blank lines only
Filled(ts, hs) == IF ts = <<>> \/ hs = <<>> THEN BOOLEAN ELSE {TRUE}

EmptyInput == [filled |-> FALSE, ts |-> <<>>, ps |-> <<>>, hs |-> <<>>, hl |-> 0]

Init ==
    /\ view = "idle"
    /\ boxes_filled = FALSE
    /\ timestamps_list = <<>>
    /\ pressure_list = <<>>
    /\ heights_list = <<>>
    /\ additional_headloss = 0
    /\ error = ""
    /\ result_rows = <<>>
    /\ processed_events = <<>>
    /\ quick_rows = <<>>

SetInputs(in) ==
    /\ boxes_filled' = in.filled
    /\ timestamps_list' = in.ts
    /\ pressure_list' = in.ps
    /\ heights_list' = in.hs
    /\ additional_headloss' = in.hl

\* the outcome of the "if run_analysis_clicked:" block
run_analysis(in) ==
    LET rows == ResultRows(in.ts, in.ps, in.hl, in.hs, Len(unique_heights(in.hs)))
    IN IF ~in.filled
       THEN [error |-> "Please provide data in all text areas.",
             result_rows |-> <<>>, processed_events |-> <<>>]
       ELSE IF Len(in.ts) # Len(in.ps)
       THEN [error |-> "Error parsing pressure data",
             result_rows |-> <<>>, processed_events |-> <<>>]
       ELSE IF rows = <<>>
       THEN [error |-> "KeyError", result_rows |-> <<>>, processed_events |-> <<>>]
       ELSE [error |-> "", result_rows |-> rows, processed_events |-> process_outages(rows)]

\* the outcome of the "if quick_table_clicked:" block
quick_table(in) ==
    IF ~in.filled
    THEN [error |-> "Please provide data in all text areas.", rows |-> <<>>]
    ELSE IF Len(in.ts) # Len(in.ps)
    THEN [error |-> "Error parsing pressure data", rows |-> <<>>]
    ELSE compute_quick_table(in.ts, in.ps, in.hl, in.hs)

RunAnalysis ==
    /\ view = "idle"
    /\ \E ts \in TimestampLists, hs \in HeightLists, hl \in Headlosses :
      \E ps \in PressureLists(Len(ts)), filled \in Filled(ts, hs) :
      \E in \in {Input(filled, ts, ps, hs, hl)} :
        /\ SetInputs(in)
        /\ \E out \in {run_analysis(in)} :
              /\ error' = out.error
              /\ result_rows' = out.result_rows
              /\ processed_events' = out.processed_events
    /\ view' = "analysis"
    /\ quick_rows' = <<>>

QuickTable ==
    /\ view = "idle"
    /\ \E ts \in TimestampLists, hs \in HeightLists, hl \in Headlosses :
      \E ps \in PressureLists(Len(ts)), filled \in Filled(ts, hs) :
      \E in \in {Input(filled, ts, ps, hs, hl)} :
        /\ SetInputs(in)
        /\ \E out \in {quick_table(in)} :
              /\ error' = out.error
              /\ quick_rows' = out.rows
    /\ view' = "quick"
    /\ result_rows' = <<>>
    /\ processed_events' = <<>>

\* any other interaction reruns the script with both buttons unset: the page
\* shows the form only
Rerun ==
    /\ view # "idle"
    /\ view' = "idle"
    /\ SetInputs(EmptyInput)
    /\ error' = ""
    /\ result_rows' = <<>>
    /\ processed_events' = <<>>
    /\ quick_rows' = <<>>

Next == RunAnalysis \/ QuickTable \/ Rerun

Spec == Init /\ [][Next]_vars

\* ---- process_outages as a function of its argument ----

\* the rows process_outages can be handed: for each height the "In supply all
\* times" row, an outage below 3 hours, and two outages of 3 hours more than
\* an hour apart
RowHeights == Heights \cup {14}

OutageRow(h, lost, regained) ==
    [Property_Height |-> h,
     Total_Properties |-> 1,
     Lost_Supply |-> lost,
     Regained_Supply |-> regained,
     Outage_Duration |-> regained - lost,
     Restoration_Duration |-> <<>>,
     Raw_Duration |-> regained - lost]

RowsGiven ==
    UNION {{InSupplyRow(h, 1),
            OutageRow(h, 0, 1),
            OutageRow(h, 0, MinDuration),
            OutageRow(h, MinDuration + MergeGap, 2 * MinDuration + MergeGap)} :
           h \in RowHeights}

RowLists == SeqsUpTo(RowsGiven, MaxRows)

InitOutages ==
    /\ view = "rows"
    /\ result_rows \in RowLists
    /\ boxes_filled = TRUE
    /\ timestamps_list = <<>>
    /\ pressure_list = <<>>
    /\ heights_list = <<>>
    /\ additional_headloss = 0
    /\ error = ""
    /\ processed_events = <<>>
    /\ quick_rows = <<>>

ProcessOutages ==
    /\ view = "rows"
    /\ view' = "processed"
    /\ processed_events' = process_outages(result_rows)
    /\ UNCHANGED <<boxes_filled, timestamps_list, pressure_list, heights_list,
                   additional_headloss, error, result_rows, quick_rows>>

NextOutages == ProcessOutages

SpecOutages == InitOutages /\ [][NextOutages]_vars

\* ---- vocabulary of the properties ----

AnalysisShown == view = "analysis" /\ error = ""
QuickShown == view = "quick" /\ error = ""

GroupHeights == {heights_list[i] : i \in 1..Len(heights_list)}

\* the supply signal of height h in the run the state shows
Signal(h) == supply_status(pressure_list, additional_headloss, h)

RowsOf(rows, h) == SelectSeq(rows, LAMBDA r : r.Property_Height = h)

EventRowsOf(rows, h) ==
    SelectSeq(rows, LAMBDA r : r.Property_Height = h /\ r.Lost_Supply # InSupplyAllTimes)

StrictlyIncreasing(ts) == \A i \in 1..Len(ts) - 1 : ts[i] < ts[i + 1]

\* the readings at which the signal goes from true to false
Falls(sig) == {i \in 2..Len(sig) : sig[i - 1] /\ ~sig[i]}

\* the first readings of the maximal runs of false
RunStarts(sig) == {i \in 1..Len(sig) : ~sig[i] /\ (i = 1 \/ sig[i - 1])}

RECURSIVE Ascending(_)
Ascending(S) ==
    IF S = {} THEN <<>>
    ELSE LET m == CHOOSE x \in S : \A y \in S : x <= y
         IN <<m>> \o Ascending(S \ {m})

\* the interval of the run of false that starts at reading i
RunInterval(ts, sig, i) ==
    LET later == {j \in (i + 1)..Len(sig) : sig[j]}
    IN [lost |-> ts[i],
        regained |-> IF later # {}
                     THEN ts[CHOOSE j \in later : \A k \in later : j <= k]
                     ELSE ts[Len(ts)]]

Interval(r) == [lost |-> r.Lost_Supply, regained |-> r.Regained_Supply]

\* ---- C1 ----
\* C1 (as claimed): with strictly increasing timestamps every interruption event
\* of every height has lost_time < regained_time and
\* duration = regained_time - lost_time >= 0, the event closed at the end of
\* the series included.
C1_LostBeforeRegained ==
    (AnalysisShown /\ StrictlyIncreasing(timestamps_list)) =>
        \A i \in 1..Len(result_rows) :
            LET r == result_rows[i]
            IN r.Lost_Supply # InSupplyAllTimes =>
                /\ r.Lost_Supply < r.Regained_Supply
                /\ r.Raw_Duration = r.Regained_Supply - r.Lost_Supply
                /\ r.Raw_Duration >= 0

\* ---- C2 ----
\* C2 (as claimed): the number of events of a height is the number of
\* true-to-false transitions of its signal, or one more when the signal is
\* still false at the last reading, and consecutive events do not overlap
\* (here for strictly increasing timestamps).
C2_CountIsFallsPlusTrailing ==
    (AnalysisShown /\ StrictlyIncreasing(timestamps_list)) =>
        \A h \in GroupHeights :
            LET ev == EventRowsOf(result_rows, h)
                sig == Signal(h)
            IN /\ \/ Len(ev) = Cardinality(Falls(sig))
                  \/ /\ Len(sig) > 0 /\ ~sig[Len(sig)]
                     /\ Len(ev) = Cardinality(Falls(sig)) + 1
               /\ \A i \in 1..Len(ev) - 1 : ev[i].Regained_Supply <= ev[i + 1].Lost_Supply

\* C2 (amended): the number of events of a height is the number of
\* true-to-false transitions of its signal plus one when the signal starts
\* false; an event open at the end adds nothing to the count.  Consecutive
\* events do not overlap.
C2_CountIsFallsPlusLeading ==
    AnalysisShown =>
        \A h \in GroupHeights :
            LET ev == EventRowsOf(result_rows, h)
                sig == Signal(h)
            IN /\ Len(ev) = Cardinality(Falls(sig))
                            + (IF Len(sig) > 0 /\ ~sig[1] THEN 1 ELSE 0)
               /\ \A i \in 1..Len(ev) - 1 : ev[i].Regained_Supply <= ev[i + 1].Lost_Supply

\* a signal that starts false, regains supply and loses it again, left open
C2_Witness ==
    /\ AnalysisShown
    /\ StrictlyIncreasing(timestamps_list)
    /\ \E h \in GroupHeights :
        LET sig == Signal(h)
        IN /\ Len(sig) >= 3 /\ ~sig[1] /\ ~sig[Len(sig)]
           /\ Falls(sig) # {}
           /\ Len(EventRowsOf(result_rows, h)) = Cardinality(Falls(sig)) + 1

\* ---- C3 ----
\* C3: the events of a height are, in order, one per maximal run of false
\* readings: lost at the first reading of the run, regained at the first true
\* reading after it or at the last timestamp.  A constant-true signal gives the
\* "In supply all times" row alone, a constant-false signal one event from the
\* first to the last timestamp.
C3_OneEventPerRun ==
    AnalysisShown =>
        \A h \in GroupHeights :
            LET ev == EventRowsOf(result_rows, h)
                sig == Signal(h)
                starts == Ascending(RunStarts(sig))
            IN /\ Len(ev) = Len(starts)
               /\ \A k \in 1..Len(ev) :
                    /\ Interval(ev[k]) = RunInterval(timestamps_list, sig, starts[k])
                    /\ ev[k].Raw_Duration = ev[k].Regained_Supply - ev[k].Lost_Supply
               /\ (\A i \in 1..Len(sig) : sig[i]) =>
                    RowsOf(result_rows, h)
                        = <<InSupplyRow(h, total_props(heights_list, h))>>
               /\ (Len(sig) > 0 /\ \A i \in 1..Len(sig) : ~sig[i]) =>
                    /\ Len(ev) = 1
                    /\ Interval(ev[1]) = [lost |-> timestamps_list[1],
                                          regained |-> timestamps_list[Len(timestamps_list)]]

\* two runs of false in one signal, the first closed by a true reading and the
\* second reaching the end of the series
C3_Witness ==
    /\ AnalysisShown
    /\ StrictlyIncreasing(timestamps_list)
    /\ \E h \in GroupHeights :
        LET ev == EventRowsOf(result_rows, h)
            sig == Signal(h)
        IN /\ Len(ev) = 2
           /\ ~sig[Len(sig)] /\ ~sig[Len(sig) - 1]
           /\ ev[2].Regained_Supply = timestamps_list[Len(timestamps_list)]
           /\ ev[2].Lost_Supply < ev[2].Regained_Supply

\* ---- C4 ----
\* C4 (as claimed): a series of one reading gives no interruption for any
\* height, whatever the single status: every row is "In supply all times".
C4_SingleReadingNoInterruption ==
    (AnalysisShown /\ Len(timestamps_list) = 1) =>
        \A i \in 1..Len(result_rows) : result_rows[i].Lost_Supply = InSupplyAllTimes

\* ---- chains of events ----

\* the events that start a new running outage: the first, and every event that
\* follows the one before it by MergeGap or more
ChainStarts(ev) ==
    {i \in 1..Len(ev) :
        i = 1 \/ ev[i].Lost_Supply - ev[i - 1].Regained_Supply >= MergeGap}

\* the last event of the maximal chain that starts at event s
ChainEnd(ev, s) ==
    LET later == {i \in ChainStarts(ev) : i > s}
    IN IF later = {} THEN Len(ev)
       ELSE (CHOOSE i \in later : \A j \in later : i <= j) - 1

RECURSIVE SumDurations(_, _, _)
SumDurations(ev, a, b) ==
    IF a > b THEN 0 ELSE ev[a].Raw_Duration + SumDurations(ev, a + 1, b)

RECURSIVE SumGaps(_, _, _)
\* the gaps between the consecutive events ev[a], ..., ev[b]
SumGaps(ev, a, b) ==
    IF a >= b THEN 0
    ELSE (ev[a + 1].Lost_Supply - ev[a].Regained_Supply) + SumGaps(ev, a + 1, b)

ChainDuration(ev, a, b) == SumDurations(ev, a, b) + SumGaps(ev, a, b)

ChainOutage(h, ev, a, b) ==
    [Property_Height |-> h,
     Total_Properties |-> total_props(heights_list, h),
     Lost_Supply |-> ev[a].Lost_Supply,
     Regained_Supply |-> ev[b].Regained_Supply,
     Outage_Duration_raw |-> ChainDuration(ev, a, b)]

\* ---- C5 ----
\* C5 (as claimed): every maximal chain of events of one height whose
\* consecutive gaps are below the merge threshold gives exactly one aggregated
\* outage, from the first event's lost time to the last event's regained
\* time, with the sum of the durations and the gaps as cumulative duration
\* (here for heights whose events all last some time).
C5_ChainGivesOneOutage ==
    AnalysisShown =>
        \A h \in GroupHeights :
            LET ev == EventRowsOf(result_rows, h)
                out == RowsOf(processed_events, h)
            IN (\A i \in 1..Len(ev) : ev[i].Raw_Duration > 0) =>
               \A s \in ChainStarts(ev) :
                SelectSeq(out, LAMBDA r : r.Lost_Supply = ev[s].Lost_Supply)
                    = <<ChainOutage(h, ev, s, ChainEnd(ev, s))>>

\* C5 (amended): such a chain gives exactly one aggregated outage, as
\* described, when the sum of its durations and gaps is at least 3 hours,
\* and none when it is less.
C5_ChainGivesOneOutageIfLong ==
    AnalysisShown =>
        \A h \in GroupHeights :
            LET ev == EventRowsOf(result_rows, h)
                out == RowsOf(processed_events, h)
            IN \A s \in ChainStarts(ev) :
                SelectSeq(out, LAMBDA r : r.Lost_Supply = ev[s].Lost_Supply)
                    = IF ChainDuration(ev, s, ChainEnd(ev, s)) >= MinDuration
                      THEN <<ChainOutage(h, ev, s, ChainEnd(ev, s))>>
                      ELSE <<>>

\* two events half an hour apart merged into one outage of 3 hours or more
C5_Witness ==
    /\ AnalysisShown
    /\ \E h \in GroupHeights :
        LET ev == EventRowsOf(result_rows, h)
            out == RowsOf(processed_events, h)
        IN /\ Len(ev) >= 2
           /\ ChainStarts(ev) = {1}
           /\ ev[2].Lost_Supply - ev[1].Regained_Supply > 0
           /\ ev[1].Raw_Duration > 0 /\ ev[2].Raw_Duration > 0
           /\ Len(out) = 1
           /\ out[1].Outage_Duration_raw
                = ev[1].Raw_Duration
                  + (ev[2].Lost_Supply - ev[1].Regained_Supply) + ev[2].Raw_Duration

\* ---- C6 ----
\* C6: a running outage is emitted if and only if its cumulative duration is
\* at least 3 hours, whether it is closed inside the loop or is the last one of
\* its height: every aggregated outage has a cumulative duration of 3 hours or
\* more, and the aggregated outages of a height are as many as its chains of 3
\* hours or more.
C6_EmittedIffThreeHours ==
    AnalysisShown =>
        /\ \A i \in 1..Len(processed_events) :
              processed_events[i].Outage_Duration_raw >= MinDuration
        /\ \A h \in GroupHeights :
              LET ev == EventRowsOf(result_rows, h)
              IN Len(RowsOf(processed_events, h))
                   = Cardinality({s \in ChainStarts(ev) :
                        ChainDuration(ev, s, ChainEnd(ev, s)) >= MinDuration})

\* an outage of exactly 3 hours closed inside the loop and emitted, followed by
\* a last running outage below 3 hours, which is not
C6_Witness ==
    /\ AnalysisShown
    /\ \E h \in GroupHeights :
        LET ev == EventRowsOf(result_rows, h)
            out == RowsOf(processed_events, h)
        IN /\ Cardinality(ChainStarts(ev)) = 2
           /\ Len(out) = 1
           /\ out[1].Outage_Duration_raw = MinDuration
           /\ out[1].Lost_Supply = ev[1].Lost_Supply
           /\ ev[Len(ev)].Raw_Duration > 0

\* ---- C7 ----
\* the run on the same readings with the lines of height h alone in the
\* heights box
Alone(h) ==
    Input(TRUE, timestamps_list, pressure_list,
          SelectSeq(heights_list, LAMBDA x : x = h), additional_headloss)

\* C7 (as claimed): the rows of one height, in the raw rows, the aggregated
\* outages and the quick table, are those of the run in which that height is
\* the only one: other heights in the same run change nothing (here for
\* strictly increasing timestamps).
C7_RowsIndependentOfOtherHeights ==
    StrictlyIncreasing(timestamps_list) =>
    \A h \in GroupHeights :
        /\ AnalysisShown =>
            /\ RowsOf(result_rows, h) = run_analysis(Alone(h)).result_rows
            /\ RowsOf(processed_events, h) = run_analysis(Alone(h)).processed_events
        /\ (view = "quick" /\ error \in {"", "UnboundLocalError"}) =>
            RowsOf(quick_rows, h) = quick_table(Alone(h)).rows

\* ---- C8 ----
\* C8 (as claimed): an outage still open at the last timestamp is marked in
\* the raw rows and in the aggregated outages, so these differ from those of
\* the run in which supply is seen restored at the last reading (same
\* timestamps, strictly increasing, a restoring pressure as last reading).
C8_OpenOutageFlagged ==
    (AnalysisShown /\ StrictlyIncreasing(timestamps_list)) =>
        \A h \in GroupHeights, p \in Pressures :
            LET n == Len(pressure_list)
                restored == [pressure_list EXCEPT ![n] = p]
                rows == GroupRows(timestamps_list, restored, additional_headloss,
                                  heights_list, h)
            IN (/\ n > 0
                /\ ~Signal(h)[n]
                /\ supply_status(restored, additional_headloss, h)[n]) =>
                  /\ RowsOf(result_rows, h) # rows
                  /\ RowsOf(processed_events, h) # <<>> =>
                        RowsOf(processed_events, h) # process_outages(rows)

\* ---- C9 ----
\* C9 (as claimed): in the quick table a height is "In Supply" exactly when
\* its signal is true at every reading, "Outage" exactly when it is false at
\* the last reading, and "Restored" when it was false at some reading and is
\* true at the last, with the duration of the last event of
\* get_supply_interruptions as Outage Duration and the time since that
\* event's regained time as Restoration Duration (here for strictly
\* increasing timestamps).
C9_QuickClassification ==
    (QuickShown /\ StrictlyIncreasing(timestamps_list)) =>
        \A k \in 1..Len(quick_rows) :
            LET r == quick_rows[k]
                sig == Signal(r.Property_Height)
                n == Len(sig)
                ev == get_supply_interruptions(timestamps_list, sig)
            IN /\ r.Status = "In Supply" <=> \A i \in 1..n : sig[i]
               /\ r.Status = "Outage" <=> ~sig[n]
               /\ ((\E i \in 1..n : ~sig[i]) /\ sig[n]) =>
                    /\ r.Status = "Restored"
                    /\ r.Outage_Duration = format_timedelta(ev[Len(ev)].duration)
                    /\ r.Restoration_Duration
                         = format_timedelta(timestamps_list[n] - ev[Len(ev)].regained_time)

\* ---- C10 ----
\* C10 (as claimed): a run whose boxes hold text but no reading is aborted
\* with an error, and shows no result row and no aggregated outage.
C10_ZeroReadingsAborted ==
    (view = "analysis" /\ boxes_filled /\ timestamps_list = <<>>) =>
        /\ error # ""
        /\ result_rows = <<>>
        /\ processed_events = <<>>

\* ---- C11 ----
\* C11: the list process_outages returns is in descending order of property
\* height, whatever the order of the rows it is given and however many heights
\* they name, and every entry comes from an outage row of its height: the "In
\* supply all times" rows give no entry.
C11_SortedByHeightDescending ==
    view = "processed" =>
        /\ \A i \in 1..Len(processed_events) - 1 :
              processed_events[i].Property_Height
                >= processed_events[i + 1].Property_Height
        /\ \A i \in 1..Len(processed_events) :
              \E k \in 1..Len(result_rows) :
                 /\ result_rows[k].Lost_Supply # InSupplyAllTimes
                 /\ result_rows[k].Property_Height = processed_events[i].Property_Height
                 /\ result_rows[k].Lost_Supply = processed_events[i].Lost_Supply

\* rows given in ascending order of height, the middle one "In supply all
\* times", the other two giving an entry each
C11_Witness ==
    /\ view = "processed"
    /\ Len(result_rows) = 3
    /\ result_rows[1].Property_Height < result_rows[2].Property_Height
    /\ result_rows[2].Property_Height < result_rows[3].Property_Height
    /\ result_rows[2].Lost_Supply = InSupplyAllTimes
    /\ Len(processed_events) = 2
    /\ processed_events[1].Property_Height = result_rows[3].Property_Height
    /\ processed_events[2].Property_Height = result_rows[1].Property_Height

\* ---- C12 ----
\* the events of ev that lie inside the aggregated outage r
Covered(ev, r) ==
    {i \in 1..Len(ev) :
        r.Lost_Supply <= ev[i].Lost_Supply /\ ev[i].Regained_Supply <= r.Regained_Supply}

\* C12: two consecutive events of a height are in the same running outage
\* exactly when the gap between them is below 1 hour: no aggregated outage
\* holds a gap of 1 hour or more, none stops or starts at a gap below 1 hour,
\* and each has the cumulative duration of its own events and gaps alone, with
\* nothing of a discarded outage before it.
C12_FoldedIffGapBelowOneHour ==
    AnalysisShown =>
        \A h \in GroupHeights :
            LET ev == EventRowsOf(result_rows, h)
                out == RowsOf(processed_events, h)
            IN \A k \in 1..Len(out) :
                LET in_r == Covered(ev, out[k])
                    first == CHOOSE i \in in_r : \A j \in in_r : i <= j
                    last == CHOOSE i \in in_r : \A j \in in_r : j <= i
                IN /\ in_r # {}
                   /\ \A i \in 1..Len(ev) - 1 :
                        LET gap == ev[i + 1].Lost_Supply - ev[i].Regained_Supply
                        IN /\ (i \in in_r /\ i + 1 \in in_r) => gap < MergeGap
                           /\ gap < MergeGap => (i \in in_r <=> i + 1 \in in_r)
                   /\ out[k].Lost_Supply = ev[first].Lost_Supply
                   /\ out[k].Regained_Supply = ev[last].Regained_Supply
                   /\ out[k].Outage_Duration_raw = ChainDuration(ev, first, last)

\* an outage below 3 hours, exactly 1 hour of supply, then an outage of 3 hours
\* or more: the first is discarded and the second emitted on its own
C12_Witness ==
    /\ AnalysisShown
    /\ \E h \in GroupHeights :
        LET ev == EventRowsOf(result_rows, h)
            out == RowsOf(processed_events, h)
        IN /\ Len(ev) = 2
           /\ ev[1].Raw_Duration > 0
           /\ ev[2].Lost_Supply - ev[1].Regained_Supply = MergeGap
           /\ Len(out) = 1
           /\ out[1].Lost_Supply = ev[2].Lost_Supply
           /\ out[1].Outage_Duration_raw = ev[2].Raw_Duration

\* ---- C13 ----
\* C13: for the events get_supply_interruptions gives on non-decreasing
\* timestamps, every aggregated outage has Regained Supply - Lost Supply as
\* cumulative duration, and the aggregated outages of one height follow each
\* other at 1 hour or more, so they do not overlap.
C13_DurationTelescopes ==
    AnalysisShown =>
        \A h \in GroupHeights :
            LET out == RowsOf(processed_events, h)
            IN /\ \A k \in 1..Len(out) :
                    out[k].Outage_Duration_raw
                        = out[k].Regained_Supply - out[k].Lost_Supply
               /\ \A k \in 1..Len(out) - 1 :
                    out[k + 1].Lost_Supply - out[k].Regained_Supply >= MergeGap

\* two aggregated outages of one height, exactly 1 hour apart
C13_Witness ==
    /\ AnalysisShown
    /\ \E h \in GroupHeights :
        LET out == RowsOf(processed_events, h)
        IN /\ Len(out) = 2
           /\ out[2].Lost_Supply - out[1].Regained_Supply = MergeGap
           /\ out[1].Outage_Duration_raw >= MinDuration
           /\ out[2].Outage_Duration_raw >= MinDuration

====
